---- MODULE Spec2Model ----
(***************************************************************************)
(* Index lifecycle scripts of plugin/storage/es: esRollover.py (init,      *)
(* rollover, lookback) and esCleaner.py (retention sweep), run against an  *)
(* Elasticsearch store through the curator library.                        *)
(*                                                                         *)
(* Index and alias names are kept as records and rendered to character     *)
(* sequences (Render, RenderAlias) whenever the scripts treat them as      *)
(* strings: regular-expression filters, the timestring parser, the         *)
(* 'write' test of create_aliases.                                         *)
(***************************************************************************)
EXTENDS Integers, Sequences, FiniteSets, TLC

(***************************************************************************)
(* Bounds of the model.                                                    *)
(***************************************************************************)
\* the clock counts days, from day 0 (2024-03-01T00:00) to day MaxTime
MaxTime == 2
\* highest rollover sequence number the store is driven to
MaxSeq == 3
\* a rollover or the span writer makes a new index only while the store
\* holds fewer than MaxIndices indices
MaxIndices == 4
\* most indices of the span writer or of another deployment at one time
MaxWriter == 2

(***************************************************************************)
(* Strings as sequences of one-character strings.                          *)
(***************************************************************************)
DigitChars == <<"0", "1", "2", "3", "4", "5", "6", "7", "8", "9">>
DigitSet == {DigitChars[i] : i \in 1..10}
Letters == {"a", "c", "d", "e", "g", "h", "i", "j", "n", "p", "q", "r", "s",
            "t", "v", "w", "x"}
Alphabet == DigitSet \cup Letters \cup {"-", "."}

S_jaeger == <<"j", "a", "e", "g", "e", "r">>
S_span == <<"s", "p", "a", "n">>
S_service == <<"s", "e", "r", "v", "i", "c", "e">>
S_dependencies == <<"d", "e", "p", "e", "n", "d", "e", "n", "c", "i", "e", "s">>
S_archive == <<"a", "r", "c", "h", "i", "v", "e">>
S_read == <<"r", "e", "a", "d">>
S_write == <<"w", "r", "i", "t", "e">>
Dash == <<"-">>

\* the decimal value of a digit character
DigitVal(c) == (CHOOSE i \in 1..10 : DigitChars[i] = c) - 1

RECURSIVE PadDigits(_, _)
\* n in decimal, zero-padded to w digits (the low w digits when n is wider)
PadDigits(n, w) ==
    IF w = 0 THEN <<>>
    ELSE PadDigits(n \div 10, w - 1) \o <<DigitChars[(n % 10) + 1]>>

RECURSIVE ParseDigits(_)
\* the number a sequence of digit characters spells
ParseDigits(s) ==
    IF s = <<>> THEN 0
    ELSE 10 * ParseDigits(SubSeq(s, 1, Len(s) - 1)) + DigitVal(s[Len(s)])

(***************************************************************************)
(* Regular expressions, as far as the scripts use them: a pattern is a set *)
(* of alternatives, each a sequence of character classes.                  *)
(***************************************************************************)
Lit(s) == [i \in 1..Len(s) |-> {s[i]}]
Digits(n) == [i \in 1..n |-> DigitSet]

MatchAt(pat, s, off) ==
    /\ off + Len(pat) - 1 <= Len(s)
    /\ \A i \in 1..Len(pat) : s[off + i - 1] \in pat[i]

\* re.search: the pattern matches somewhere in s
Search(pats, s) ==
    \E pat \in pats : \E off \in 1..(Len(s) + 1) : MatchAt(pat, s, off)

\* a pattern written between ^ and $
FullMatch(pats, s) ==
    \E pat \in pats : Len(pat) = Len(s) /\ MatchAt(pat, s, 1)

\* the first offset at which the pattern matches, 0 when there is none
FirstMatch(pat, s) ==
    IF \E off \in 1..(Len(s) + 1) : MatchAt(pat, s, off)
    THEN CHOOSE off \in 1..(Len(s) + 1) :
            /\ MatchAt(pat, s, off)
            /\ \A o2 \in 1..(off - 1) : ~MatchAt(pat, s, o2)
    ELSE 0

(***************************************************************************)
(* Configuration values the runs are given.                                *)
(***************************************************************************)
\* INDEX_PREFIX: unset, or "q"
Prefixes == {<<>>, <<"q">>}
\* INDEX_DATE_SEPARATOR
Separators == {"-", "."}
\* NUM_OF_DAYS
DaysValues == 0..1
\* UNIT_COUNT
UnitCounts == 1..2

PrefixDash(p) == IF p # <<>> THEN p \o Dash ELSE p

(***************************************************************************)
(* Index and alias names.  An index name is prefix + 'jaeger-' + family +  *)
(* '-' + a six-digit sequence number or a date; pre is the prefix with its *)
(* dash.                                                                   *)
(***************************************************************************)
FamStr(fam) ==
    CASE fam = "span" -> S_span
      [] fam = "service" -> S_service
      [] fam = "dependencies" -> S_dependencies
      [] fam = "archive" -> S_span \o Dash \o S_archive

\* the calendar date of day number `day` (day 0 is 2024-03-01; March only)
DateOfDay(day) == [y |-> 2024, m |-> 3, d |-> day + 1]

\* strftime of '%Y' + sep + '%m' + sep + '%d'
DateStr(day, sep) ==
    LET dt == DateOfDay(day)
    IN  PadDigits(dt.y, 4) \o <<sep>> \o PadDigits(dt.m, 2) \o <<sep>>
            \o PadDigits(dt.d, 2)

NumName(pre, fam, n) ==
    [pre |-> pre, fam |-> fam, kind |-> "num", val |-> n, sep |-> ""]
DateName(pre, fam, day, sep) ==
    [pre |-> pre, fam |-> fam, kind |-> "date", val |-> day, sep |-> sep]

\* the index name as the store and the scripts see it
Render(n) ==
    n.pre \o S_jaeger \o Dash \o FamStr(n.fam) \o Dash
        \o (IF n.kind = "num" THEN PadDigits(n.val, 6)
            ELSE DateStr(n.val, n.sep))

AliasRec(pre, fam, rw) == [pre |-> pre, fam |-> fam, rw |-> rw]
\* prefix + 'jaeger-span-write' and the like
RenderAlias(a) ==
    a.pre \o S_jaeger \o Dash \o FamStr(a.fam) \o Dash
        \o (IF a.rw = "write" THEN S_write ELSE S_read)

\* days before each month of 2024
CumDays == <<0, 31, 60, 91, 121, 152, 182, 213, 244, 274, 305, 335>>
\* datetime_to_epoch, in days since 2024-03-01T00:00
DateEpoch(y, m, d) == (y - 2024) * 366 + CumDays[m] + d - 61

\* curator get_date_regex of the timestring: separators are escaped
TimestringRegex(sep) ==
    Digits(4) \o Lit(<<sep>>) \o Digits(2) \o Lit(<<sep>>) \o Digits(2)

\* curator TimestringSearch.get_epoch: the epoch of the first date in the
\* name that is written with the timestring, -1 when the name holds none
NameEpoch(s, sep) ==
    LET off == FirstMatch(TimestringRegex(sep), s)
    IN  IF off = 0 THEN -1
        ELSE DateEpoch(ParseDigits(SubSeq(s, off, off + 3)),
                       ParseDigits(SubSeq(s, off + 5, off + 6)),
                       ParseDigits(SubSeq(s, off + 8, off + 9)))

\* a separator as the scripts paste it into a regular expression
SepClass(sep) == IF sep = "." THEN <<Alphabet>> ELSE Lit(<<sep>>)

\* prefix + "jaeger-(span|service|dependencies)-" + date_regex
MainDateRegex(pre, sep) ==
    {Lit(pre \o S_jaeger \o Dash \o alt \o Dash) \o Digits(4) \o SepClass(sep)
        \o Digits(2) \o SepClass(sep) \o Digits(2) :
     alt \in {S_span, S_service, S_dependencies}}

\* the numbered pattern with the archive family let in:
\* prefix + "jaeger-(span|service|span-archive)-\d{6}"
MainRolloverRegex_archive(pre) ==
    {Lit(pre \o S_jaeger \o Dash \o alt \o Dash) \o Digits(6) :
     alt \in {S_span, S_service, S_span \o Dash \o S_archive}}

\* prefix + "jaeger-(span|service)-\d{6}"
MainRolloverRegex(pre) ==
    {Lit(pre \o S_jaeger \o Dash \o alt \o Dash) \o Digits(6) :
     alt \in {S_span, S_service}}

\* prefix + "jaeger-span-archive-\d{6}"
ArchiveRolloverRegex(pre) ==
    {Lit(pre \o S_jaeger \o Dash \o S_span \o Dash \o S_archive \o Dash)
        \o Digits(6)}

(***************************************************************************)
(* The state: the store (indices with their creation dates, aliases with   *)
(* their members, templates), the clock, the configured prefix, and what   *)
(* the last run did.                                                       *)
(***************************************************************************)
VARIABLES
    prefix,     \* INDEX_PREFIX of this deployment's runs
    archive,    \* ARCHIVE of this deployment's esRollover.py runs
    now,        \* the clock, in days
    indices,    \* index name -> creation_date, for the indices that exist
    aliases,    \* set of [alias, index, flag]: index is a member of alias
    templates,  \* index templates pushed to the store
    last,       \* the run that has just ended: what it was, what it was
                \* given, how it ended, its mutating calls; Idle between runs
    rolls,      \* history, per family: the rollovers that succeeded since
                \* init created the family, -1 when the family was not
                \* created by init or a lookback or sweep changed it since
    failures,   \* history: the runs in which a store call failed
    stalled,    \* history, per family: "behind" once a rollover run stopped
                \* between the store's rollover and the add to the read
                \* alias, "caught_up" when the next rollover run to complete
                \* has just ended, "none" otherwise
    lookedback, \* history: the indices of the store that a lookback has
                \* removed from a read alias
    race        \* a sweep and a rollover that run at the same time: where
                \* each is in its code, and its index list

vars ==
    <<prefix, archive, now, indices, aliases, templates, last, rolls, failures,
      stalled, lookedback, race>>

\* no sweep and rollover are running side by side
NoRace ==
    [on |-> FALSE,
     sweep |-> [pc |-> "end", ilo |-> {}, arch |-> FALSE, days |-> 0,
                todo |-> <<>>, listed_write |-> {}, deleted |-> {}],
     roll |-> [pc |-> "end", ilo |-> {}, fams |-> <<>>, met |-> <<>>]]

\* is_write_index of an alias member: not given, true or false
Flags == {"unset", "true", "false"}

Members(al, a) == {r.index : r \in {x \in al : x.alias = a}}
WriteFlagged(al, a) ==
    {r.index : r \in {x \in al : x.alias = a /\ x.flag = "true"}}

NoAlias == AliasRec(<<>>, "none", "none")
Call(kind, a, names) == [call |-> kind, alias |-> a]

(***************************************************************************)
(* A run threads a world through its steps: the store, the calls issued so *)
(* far, the current curator IndexList (ilo) and the run's status: "run"    *)
(* while running, "exit0" after sys.exit(0), "error" after sys.exit with a *)
(* message or an uncaught exception.  A step of a run that has ended does  *)
(* nothing.  n counts the store calls made; fail is the number of the      *)
(* store call that fails, counted from 0 (-1: none fails); failed tells    *)
(* that one did, issued how many calls had been issued by then.            *)
(***************************************************************************)
World(ix, al, tp) ==
    [ix |-> ix, al |-> al, tp |-> tp, calls |-> <<>>, st |-> "run", ilo |-> {},
     n |-> 0, fail |-> -1, failed |-> FALSE, issued |-> -1]

Raise(w) == [w EXCEPT !.st = "error"]
Issue(w, c) == [w EXCEPT !.calls = Append(@, c)]

\* a call to the store: it fails (a store error, a timeout) when the run's
\* failing call has come, and the client's exception ends the run
StoreCall(w) ==
    IF w.st # "run" THEN w
    ELSE IF w.fail = w.n
         THEN [w EXCEPT !.st = "error", !.failed = TRUE, !.n = @ + 1,
                        !.issued = Len(w.calls)]
    ELSE [w EXCEPT !.n = @ + 1]

\* curator.IndexList(client): every index of the store
IndexList(w) ==
    LET c == StoreCall(w)
    IN  IF c.st # "run" THEN c ELSE [c EXCEPT !.ilo = DOMAIN c.ix]

\* IndexList.empty_list_check raises NoIndices on an empty list
EmptyListCheck(w) ==
    IF w.st # "run" THEN w ELSE IF w.ilo = {} THEN Raise(w) ELSE w

\* IndexList.filter_by_regex(kind='regex'): pattern.search on the name
\* (anchored only where the pattern is written with ^ and $)
Matches(re, s) ==
    IF re.anchored THEN FullMatch(re.alts, s) ELSE Search(re.alts, s)

filter_by_regex(w, re) ==
    LET c == EmptyListCheck(w)
    IN  IF c.st # "run" THEN c
        ELSE [c EXCEPT !.ilo = {n \in c.ilo : Matches(re, Render(n))}]

\* the indices of the list that the store reports as members of the alias:
\* get_alias(index=<the list>, name=<alias>) answers 404 when the alias or
\* an index of the list does not exist, and curator then takes no index
\* for a member
has_alias(w, a) ==
    IF w.ilo \subseteq DOMAIN w.ix THEN w.ilo \cap Members(w.al, a) ELSE {}

\* filter_by_alias with exclude ignored: the members are kept either way
filter_by_alias_keep(w, a, exclude) ==
    LET c == StoreCall(EmptyListCheck(w))
    IN  IF c.st # "run" THEN c
        ELSE [c EXCEPT !.ilo = {n \in c.ilo : n \in has_alias(c, a)}]

\* IndexList.filter_by_alias: keeps the members (exclude: the non-members)
\* of the alias, as the store reports them at that moment
filter_by_alias(w, a, exclude) ==
    LET c == StoreCall(EmptyListCheck(w))
    IN  IF c.st # "run" THEN c
        ELSE [c EXCEPT !.ilo =
                {n \in c.ilo : (n \in has_alias(c, a)) # exclude}]

\* the length of a unit, in days
UnitTicks(unit) ==
    CASE unit = "days" -> 1
      [] unit = "weeks" -> 7

\* get_point_of_reference: now - unit * unit_count
PointOfReference(unit, unit_count, t) == t - UnitTicks(unit) * unit_count

\* the age test with the point of reference itself counted as older
OlderOrEqual(age, por) == age <= por

\* direction='older': agetest = age < PoR
OlderThan(age, por) == age < por

\* IndexList.filter_by_age(source='creation_date', direction='older')
filter_by_age_creation(w, unit, unit_count, t) ==
    IF w.st # "run" THEN w
    ELSE [w EXCEPT !.ilo =
            {n \in w.ilo :
                OlderThan(w.ix[n], PointOfReference(unit, unit_count, t))}]

\* the epochs the timestring finds in the name: one, or none
NameAges(n, sep) ==
    LET e == NameEpoch(Render(n), sep) IN IF e = -1 THEN {} ELSE {e}

\* IndexList.filter_by_age(source='name', direction='older', timestring):
\* _get_name_based_ages checks for an empty list; an index whose name holds
\* no date of the timestring has no age and leaves the list
filter_by_age_name(w, sep, unit, unit_count, t) ==
    LET c == EmptyListCheck(w)
    IN  IF c.st # "run" THEN c
        ELSE [c EXCEPT !.ilo =
                {n \in c.ilo :
                    \E e \in NameAges(n, sep) :
                        OlderThan(e, PointOfReference(unit, unit_count, t))}]

\* curator.DeleteIndices(ilo).do_action: the store drops the indices and
\* with them their alias memberships
DeleteIndices(w) ==
    LET c == StoreCall(EmptyListCheck(w))
    IN  IF c.st # "run" THEN c
        ELSE [Issue(c, Call("delete_indices", NoAlias, c.ilo)) EXCEPT
                !.ix = [n \in DOMAIN c.ix \ c.ilo |-> c.ix[n]],
                !.al = {r \in c.al : r.index \notin c.ilo}]

\* curator.CreateIndex(name, ignore_existing=True).do_action: the create
\* call is made; an index that exists already stays as it is
CreateIndex(w, name, t) ==
    LET c == StoreCall(w)
    IN  IF c.st # "run" THEN c
        ELSE [Issue(c, Call("create_index", NoAlias, {name})) EXCEPT
                !.ix = IF name \in DOMAIN c.ix THEN c.ix
                       ELSE [n \in DOMAIN c.ix \cup {name} |->
                                IF n = name THEN t ELSE c.ix[n]]]

\* the store accepts an alias update only if it leaves the alias with at
\* most one member flagged is_write_index=true
AliasValid(al, a) == Cardinality(WriteFlagged(al, a)) <= 1

\* curator.Alias(name, extra_settings).add(ilo) and do_action: add raises
\* NoIndices on an empty list; every index of the list is (re)written into
\* the alias with the given settings
AliasAdd(w, a, is_write_index) ==
    LET c == StoreCall(EmptyListCheck(w))
        flag == IF is_write_index THEN "true" ELSE "unset"
        al2 == {r \in c.al : ~(r.alias = a /\ r.index \in c.ilo)}
                 \cup {[alias |-> a, index |-> n, flag |-> flag] : n \in c.ilo}
        d == Issue(c, Call("alias_add", a, c.ilo))
    IN  IF c.st # "run" THEN c
        ELSE IF AliasValid(al2, a) THEN [d EXCEPT !.al = al2] ELSE Raise(d)

\* Alias.remove that also drops the removed indices from the store
AliasRemove_delete(w, a) ==
    LET c == StoreCall(EmptyListCheck(w))
        gone == c.ilo \cap Members(c.al, a)
    IN  IF c.st # "run" THEN c
        ELSE IF gone = {} THEN Raise(c)
        ELSE [Issue(c, Call("alias_remove", a, gone)) EXCEPT
                !.ix = [n \in DOMAIN c.ix \ gone |-> c.ix[n]],
                !.al = {r \in c.al : r.index \notin gone}]

\* curator.Alias(name).remove(ilo) and do_action: remove raises NoIndices
\* on an empty list and skips the indices that are not in the alias;
\* do_action raises ActionError when no action is left
AliasRemove(w, a) ==
    LET c == StoreCall(EmptyListCheck(w))
        gone == c.ilo \cap Members(c.al, a)
    IN  IF c.st # "run" THEN c
        ELSE IF gone = {} THEN Raise(c)
        ELSE [Issue(c, Call("alias_remove", a, gone)) EXCEPT
                !.al = {r \in c.al : ~(r.alias = a /\ r.index \in gone)}]

(***************************************************************************)
(* The store's rollover, and curator's wrapper of it.                      *)
(***************************************************************************)
\* curator rollable_alias: the alias exists and either has a member flagged
\* is_write_index=true, or has one member whose name ends in a digit
rollable_alias(al, a) ==
    LET ms == Members(al, a)
    IN  IF ms = {} THEN FALSE
        ELSE IF Cardinality(ms) > 1 THEN WriteFlagged(al, a) # {}
        ELSE \A n \in ms : Render(n)[Len(Render(n))] \in DigitSet

\* the index the store writes to through the alias: the member flagged
\* is_write_index=true, else the only member unless it is flagged false
WriteIndexOf(al, a) ==
    IF WriteFlagged(al, a) # {} THEN WriteFlagged(al, a)
    ELSE IF Cardinality(Members(al, a)) = 1
         THEN {r.index : r \in {x \in al : x.alias = a /\ x.flag = "unset"}}
         ELSE {}

\* the name the store gives the next index: the trailing number plus one,
\* six digits
RolloverTarget(n) == [n EXCEPT !.val = @ + 1]

\* POST <alias>/_rollover with the conditions met or not.  A flagged write
\* index stays in the alias with is_write_index=false beside the new one;
\* an unflagged one leaves the alias to the new index.
StoreRollover(w, a, met, t) ==
    LET src == CHOOSE n \in WriteIndexOf(w.al, a) : TRUE
        dst == RolloverTarget(src)
        flagged == src \in WriteFlagged(w.al, a)
        rest == {r \in w.al : ~(r.alias = a /\ r.index = src)}
        al2 == IF flagged
               THEN rest \cup {[alias |-> a, index |-> src, flag |-> "false"],
                               [alias |-> a, index |-> dst, flag |-> "true"]}
               ELSE rest \cup {[alias |-> a, index |-> dst, flag |-> "unset"]}
    IN  IF WriteIndexOf(w.al, a) = {} THEN Raise(w)
        ELSE IF ~met THEN Issue(w, Call("rollover", a, {}))
        ELSE IF dst \in DOMAIN w.ix THEN Raise(Issue(w, Call("rollover", a, {})))
        ELSE [Issue(w, Call("rollover", a, {dst})) EXCEPT
                !.ix = [n \in DOMAIN w.ix \cup {dst} |->
                            IF n = dst THEN t ELSE w.ix[n]],
                !.al = al2]

\* curator.Rollover(name, conditions): the constructor raises ValueError
\* on an alias that is not rollable; do_action calls the store
CuratorRollover(w, a, met, t) ==
    LET c == StoreCall(w)
        d == StoreCall(c)
    IN  IF c.st # "run" THEN c
        ELSE IF ~rollable_alias(c.al, a) THEN Raise(c)
        ELSE IF d.st # "run" THEN d
        ELSE StoreRollover(d, a, met, t)

(***************************************************************************)
(* esRollover.py                                                           *)
(***************************************************************************)
\* empty_list: NoIndices is caught, the script prints and exits 0
empty_list(w) ==
    IF w.st # "run" THEN w
    ELSE IF w.ilo = {} THEN [w EXCEPT !.st = "exit0"] ELSE w

\* get_version: ES_VERSION as given (a string), or the first character of
\* the store's version number, as an int
get_version(esVersionEnv, storeVersion) ==
    IF esVersionEnv = <<>>
    THEN [type |-> "int", val |-> DigitVal(storeVersion[1])]
    ELSE [type |-> "str", val |-> ParseDigits(esVersionEnv)]

\* esVersion == 7
IsSeven(v) == v.type = "int" /\ v.val = 7

\* check_if_ilm_policy_exists that goes on whatever the GET returns
check_if_ilm_policy_exists_skip(w, policyExists) == StoreCall(w)

\* check_if_ilm_policy_exists: exits with a message unless the GET is a 200
check_if_ilm_policy_exists(w, policyExists) ==
    LET c == StoreCall(w)
    IN  IF c.st # "run" THEN c ELSE IF policyExists THEN c ELSE Raise(c)

\* fix_mapping that does not look at the generator's return code
fix_mapping_unchecked(w, genOk) == w

\* fix_mapping: exits with the generator's output when the generator fails
fix_mapping(w, genOk) ==
    IF w.st # "run" THEN w ELSE IF genOk THEN w ELSE Raise(w)

\* create_index_template without raise_for_status: a PUT that fails is
\* printed and the run goes on
create_index_template_noraise(w, tpl) ==
    IF w.st # "run" THEN w
    ELSE IF w.fail = w.n
         THEN [w EXCEPT !.failed = TRUE, !.n = @ + 1, !.issued = Len(w.calls)]
    ELSE [Issue(w, Call("put_template", tpl, {})) EXCEPT
            !.n = @ + 1, !.tp = @ \cup {tpl}]

\* create_index_template: PUT _template/<prefix + template_name>
create_index_template(w, tpl) ==
    LET c == StoreCall(w)
    IN  IF c.st # "run" THEN c
        ELSE [Issue(c, Call("put_template", tpl, {})) EXCEPT
                !.tp = @ \cup {tpl}]

\* create_index
create_index(w, name, t) == CreateIndex(w, name, t)

\* re.search(r'write', alias_name)
HasWrite(a) == Search({Lit(S_write)}, RenderAlias(a))

\* create_aliases: the index list is narrowed to '^' + name + '$' and
\* added to the alias, flagged is_write_index on a 'write' alias under ILM
create_aliases(w, a, name, use_ilm) ==
    AliasAdd(filter_by_regex(IndexList(w),
                             [alts |-> {Lit(Render(name))}, anchored |-> TRUE]),
             a, HasWrite(a) /\ use_ilm)

\* is_alias_empty that finds every alias empty
alias_members_none(w, a) ==
    LET c == filter_by_alias(IndexList(w), a, FALSE)
    IN  IF c.st # "run" THEN c ELSE [c EXCEPT !.ilo = {}]

\* is_alias_empty, as a step: the list of the alias's members is left in
\* ilo (filter_by_alias raises when the store has no index at all)
alias_members(w, a) == filter_by_alias(IndexList(w), a, FALSE)

\* create_aliases without the is_alias_empty test
create_aliases_always(w, a, name, use_ilm) ==
    create_aliases(alias_members(w, a), a, name, use_ilm)

\* if is_alias_empty(client, alias): create_aliases(...)
create_aliases_if_empty(w, a, name, use_ilm) ==
    LET c == alias_members(w, a)
    IN  IF c.st # "run" THEN c
        ELSE IF c.ilo = {} THEN create_aliases(c, a, name, use_ilm) ELSE c

\* rollover that lists the members of the read alias, not of the write alias
rollover_wrong_alias(w, write_alias, read_alias, met, t) ==
    AliasAdd(filter_by_alias(IndexList(CuratorRollover(w, write_alias, met, t)),
                             read_alias, FALSE),
             read_alias, FALSE)

\* rollover that adds every index of the store to the read alias
rollover_addall(w, write_alias, read_alias, met, t) ==
    AliasAdd(IndexList(CuratorRollover(w, write_alias, met, t)),
             read_alias, FALSE)

\* rollover that takes an alias that cannot be rolled over as nothing to do:
\* the ValueError of curator.Rollover is caught and the script exits 0
rollover_exit0(w, write_alias, read_alias, met, t) ==
    LET c == CuratorRollover(w, write_alias, met, t)
    IN  IF w.st = "run" /\ ~rollable_alias(w.al, write_alias) /\ ~c.failed
        THEN [c EXCEPT !.st = "exit0"]
        ELSE AliasAdd(filter_by_alias(IndexList(c), write_alias, FALSE),
                      read_alias, FALSE)

\* rollover without the update of the read alias
rollover_noread(w, write_alias, read_alias, met, t) ==
    CuratorRollover(w, write_alias, met, t)

\* rollover
rollover(w, write_alias, read_alias, met, t) ==
    AliasAdd(filter_by_alias(IndexList(CuratorRollover(w, write_alias, met, t)),
                             write_alias, FALSE),
             read_alias, FALSE)

\* read_alias_lookback without the exclusion of the write alias's members
read_alias_lookback_nowrite(w, write_alias, read_alias, unit, unit_count, t) ==
    AliasRemove(
        empty_list(
            filter_by_age_creation(
                filter_by_alias(IndexList(w), read_alias, FALSE),
                unit, unit_count, t)),
        read_alias)

\* read_alias_lookback
read_alias_lookback(w, write_alias, read_alias, unit, unit_count, t) ==
    AliasRemove(
        empty_list(
            filter_by_age_creation(
                filter_by_alias(
                    filter_by_alias(IndexList(w), read_alias, FALSE),
                    write_alias, TRUE),
                unit, unit_count, t)),
        read_alias)

\* perform_action, action == 'init'
init_action(w, write_alias, read_alias, pre, fam, tpl, env, t) ==
    LET esVersion == get_version(env.esVersionEnv, env.storeVersion)
        \* client.info() is asked when ES_VERSION is not given
        w0 == IF env.esVersionEnv = <<>> THEN StoreCall(w) ELSE w
        w1 == IF w0.st # "run" THEN w0
              ELSE IF IsSeven(esVersion)
              THEN IF env.use_ilm
                   THEN check_if_ilm_policy_exists(w0, env.policyExists)
                   ELSE w0
              ELSE IF env.use_ilm THEN Raise(w0) ELSE w0
        w2 == create_index_template(fix_mapping(w1, env.genOk), tpl)
        index == NumName(pre, fam, 1)
        w3 == create_index(w2, index, t)
        w4 == create_aliases_if_empty(w3, read_alias, index, env.use_ilm)
    IN  IF w3.st # "run" THEN w3
        ELSE IF w4.st # "run" THEN w4
        ELSE create_aliases_if_empty(w4, write_alias, index, env.use_ilm)

\* perform_action for one family
perform_action(w, action, pre, fam, tplfam, env, t) ==
    LET write_alias == AliasRec(pre, fam, "write")
        read_alias == AliasRec(pre, fam, "read")
    IN  CASE action = "init" ->
                init_action(w, write_alias, read_alias, pre, fam,
                            AliasRec(pre, tplfam, "template"), env, t)
          [] action = "rollover" ->
                rollover(w, write_alias, read_alias, env.met[fam], t)
          [] action = "lookback" ->
                read_alias_lookback(w, write_alias, read_alias, env.unit,
                                    env.unit_count, t)

\* main: the archive family, or the span family and then the service family
\* (a run that has exited does not reach the second)
rollover_main(w, action, arch, p, env, t) ==
    LET pre == PrefixDash(p)
        span == perform_action(w, action, pre, "span", "span", env, t)
    IN  IF arch
        THEN perform_action(w, action, pre, "archive", "span", env, t)
        ELSE IF span.st # "run" THEN span
        ELSE perform_action(span, action, pre, "service", "service", env, t)

(***************************************************************************)
(* esCleaner.py                                                            *)
(***************************************************************************)
\* filter_main_indices
filter_main_indices(w, pre, separator, days, t) ==
    filter_by_age_name(
        empty_list(filter_by_regex(w, [alts |-> MainDateRegex(pre, separator),
                                       anchored |-> FALSE])),
        separator, "days", days, t)

\* filter_main_indices_rollover without its empty_list calls
filter_main_indices_rollover_unguarded(w, pre, days, t) ==
    filter_by_age_creation(
        filter_by_alias(
            filter_by_alias(
                filter_by_regex(w, [alts |-> MainRolloverRegex(pre),
                                    anchored |-> FALSE]),
                AliasRec(pre, "span", "write"), TRUE),
            AliasRec(pre, "service", "write"), TRUE),
        "days", days, t)

\* filter_main_indices_rollover
filter_main_indices_rollover(w, pre, days, t) ==
    filter_by_age_creation(
        empty_list(
            filter_by_alias(
                empty_list(
                    filter_by_alias(
                        empty_list(
                            filter_by_regex(w,
                                [alts |-> MainRolloverRegex(pre),
                                 anchored |-> FALSE])),
                        AliasRec(pre, "span", "write"), TRUE)),
                AliasRec(pre, "service", "write"), TRUE)),
        "days", days, t)

\* filter_archive_indices_rollover without the exclusion of the write
\* alias's members
filter_archive_indices_rollover_all(w, pre, days, t) ==
    filter_by_age_creation(
        empty_list(
            filter_by_regex(w, [alts |-> ArchiveRolloverRegex(pre),
                                anchored |-> FALSE])),
        "days", days, t)

\* the archive filter by alias membership: the members of the archive read
\* alias that are not members of the archive write alias, by age
filter_archive_indices_rollover_by_alias(w, pre, days, t) ==
    filter_by_age_creation(
        empty_list(
            filter_by_alias(
                empty_list(
                    filter_by_alias(w, AliasRec(pre, "archive", "write"),
                                    TRUE)),
                AliasRec(pre, "archive", "read"), FALSE)),
        "days", days, t)

\* filter_archive_indices_rollover
filter_archive_indices_rollover(w, pre, days, t) ==
    filter_by_age_creation(
        empty_list(
            filter_by_alias(
                empty_list(
                    filter_by_regex(w, [alts |-> ArchiveRolloverRegex(pre),
                                        anchored |-> FALSE])),
                AliasRec(pre, "archive", "write"), TRUE)),
        "days", days, t)

\* main
cleaner_main(w, arch, rollover_mode, p, separator, days, t) ==
    LET pre == PrefixDash(p)
        w1 == empty_list(IndexList(w))
        w2 == IF arch THEN filter_archive_indices_rollover(w1, pre, days, t)
              ELSE IF rollover_mode
                   THEN filter_main_indices_rollover(w1, pre, days, t)
                   ELSE filter_main_indices(w1, pre, separator, days, t)
    IN  DeleteIndices(empty_list(w2))

(***************************************************************************)
(* What the runs are given, and the runs as actions.                       *)
(***************************************************************************)
\* ES_VERSION: unset, or '7'
EsVersionEnvs == {<<>>, <<"7">>}
\* the version number the store reports
StoreVersions == {<<"6", ".", "8">>, <<"7", ".", "1">>, <<"8", ".", "1">>}
\* UNIT
Units == {"days"}

AllInitEnvs ==
    [use_ilm : BOOLEAN, esVersionEnv : EsVersionEnvs,
     storeVersion : StoreVersions, policyExists : BOOLEAN, genOk : BOOLEAN]
\* the environments of init, each input varied only where init reads it:
\* the store's version when ES_VERSION is unset, version and policy under
\* ES_USE_ILM, the policy for version 7, the generator once the checks pass
InitEnvs ==
    {e \in AllInitEnvs :
        LET seven == IsSeven(get_version(e.esVersionEnv, e.storeVersion))
        IN  /\ e.esVersionEnv # <<>> => e.storeVersion = <<"7", ".", "1">>
            /\ ~e.use_ilm => e.esVersionEnv = <<>>
                                /\ e.storeVersion = <<"7", ".", "1">>
            /\ ~(e.use_ilm /\ seven) => e.policyExists
            /\ (e.use_ilm /\ ~seven) => e.genOk}
\* ARCHIVE, ROLLOVER and INDEX_DATE_SEPARATOR of a sweep (ROLLOVER is read
\* unless ARCHIVE is set, the separator in date-stamped mode only)
SweepModes ==
    {m \in [archive : BOOLEAN, rollover_mode : BOOLEAN, separator : Separators] :
        /\ m.archive => ~m.rollover_mode
        /\ (m.archive \/ m.rollover_mode) => m.separator = "-"}
RolloverEnvs(arch) ==
    [met : [IF arch THEN {"archive"} ELSE {"span", "service"} -> BOOLEAN]]
LookbackEnvs == [unit : Units, unit_count : UnitCounts]

\* a prefix of another deployment on the same store, ending in this one's
ForeignPrefix(p) == <<"x">> \o p

\* the indices the span writer may create on a day: the day's date-stamped
\* span index of this deployment and, on the first day, its other
\* date-stamped indices and indices of the other deployment
WriterNames(p, day) ==
    {DateName(PrefixDash(p), "span", day, "-")}
      \cup (IF day = 0
            THEN {DateName(PrefixDash(p), "span", day, "."),
                  DateName(PrefixDash(p), "dependencies", day, "-"),
                  DateName(PrefixDash(ForeignPrefix(p)), "span", day, "-"),
                  NumName(PrefixDash(ForeignPrefix(p)), "span", 1)}
            ELSE {})

\* the indices of the store that the scripts' init and rollover did not make
Written == {n \in DOMAIN indices :
                n.kind = "date" \/ n.pre # PrefixDash(prefix)}

Result(op, arg, w) ==
    [op |-> op, arg |-> arg, st |-> IF w.st = "run" THEN "done" ELSE w.st,
     calls |-> w.calls, failed |-> w.failed, issued |-> w.issued]

\* no run has ended since the last Exit
NoArg == [none |-> TRUE]
Idle == [op |-> "none", arg |-> NoArg, st |-> "done", calls |-> <<>>,
         failed |-> FALSE, issued |-> -1]
IsIdle == last.op = "none"

\* the rollover families of the scripts
Families == {"span", "service", "archive"}

\* what the store holds of a family of this deployment: its numbered
\* indices and the memberships of its two aliases
FamilyView(ix, al, pre, f) ==
    [idx |-> {n \in DOMAIN ix : n.kind = "num" /\ n.pre = pre /\ n.fam = f},
     mem |-> {r \in al : r.alias \in {AliasRec(pre, f, "read"),
                                        AliasRec(pre, f, "write")}}]

\* the history of a family after a run: unchanged with the family; 0 when
\* init made the family where the store held nothing of it; one more when a
\* rollover run that ended without error made the family's next index
NextRolls(op, w) ==
    [f \in Families |->
        LET pre == PrefixDash(prefix)
            before == FamilyView(indices, aliases, pre, f)
            after == FamilyView(w.ix, w.al, pre, f)
        IN  IF before = after THEN rolls[f]
            ELSE IF op = "init" /\ w.st = "run"
                        /\ before.idx = {} /\ before.mem = {}
                 THEN 0
            ELSE IF op = "rollover" /\ w.st = "run" /\ rolls[f] >= 0
                        /\ before.idx # after.idx
                 THEN rolls[f] + 1
            ELSE -1]

\* the history of a family's stalled rollover after a run
NextStalled(op, w) ==
    [f \in Families |->
        LET write_alias == AliasRec(PrefixDash(prefix), f, "write")
            read_alias == AliasRec(PrefixDash(prefix), f, "read")
            wi == WriteIndexOf(w.al, write_alias)
        IN  IF /\ op = "rollover"
               /\ w.failed
               /\ wi # WriteIndexOf(aliases, write_alias)
               /\ ~(wi \subseteq Members(w.al, read_alias))
            THEN "behind"
            ELSE IF op = "rollover" /\ w.st = "run" /\ stalled[f] = "behind"
            THEN "caught_up"
            ELSE stalled[f]]

\* the members that the read aliases have lost in a run
LeftReadAlias(w) ==
    UNION {Members(aliases, AliasRec(PrefixDash(prefix), f, "read"))
                \ Members(w.al, AliasRec(PrefixDash(prefix), f, "read")) :
           f \in Families}

Commit(op, arg, w) ==
    /\ IsIdle
    /\ indices' = w.ix
    /\ aliases' = w.al
    /\ templates' = w.tp
    /\ last' = Result(op, arg, w)
    /\ rolls' = NextRolls(op, w)
    /\ failures' = IF w.failed THEN failures + 1 ELSE failures
    /\ stalled' = NextStalled(op, w)
    /\ lookedback' = IF op = "lookback"
                      THEN lookedback \cup LeftReadAlias(w)
                      ELSE lookedback \cap DOMAIN w.ix
    /\ UNCHANGED <<prefix, archive, now, race>>

Start == World(indices, aliases, templates)


\* init passes its checks of the version, the policy and the generator
InitChecksPass(env) ==
    /\ env.genOk
    /\ env.use_ilm =>
            /\ IsSeven(get_version(env.esVersionEnv, env.storeVersion))
            /\ env.policyExists

\* esRollover.py init (the environments in which init stops at a check,
\* before its first call that changes the store, are tried on day 0 only)
RunInit(env) ==
    /\ InitChecksPass(env) \/ now = 0
    /\ Commit("init", env,
              rollover_main(Start, "init", archive, prefix, env, now))

\* the rollover is driven no further than index MaxSeq, and makes no more
\* than MaxIndices indices
RolloverBounded(env) ==
    \A f \in DOMAIN env.met :
        env.met[f] =>
            /\ \A n \in Members(aliases, AliasRec(PrefixDash(prefix), f, "write")) :
                    n.val < MaxSeq
            /\ Cardinality(DOMAIN indices)
                    + Cardinality({g \in DOMAIN env.met : env.met[g]})
                        <= MaxIndices

\* esRollover.py rollover
RunRollover(env) ==
    /\ IsIdle
    /\ RolloverBounded(env)
    /\ Commit("rollover", env,
              rollover_main(Start, "rollover", archive, prefix, env, now))

\* esRollover.py lookback
RunLookback(env) ==
    Commit("lookback", env,
           rollover_main(Start, "lookback", archive, prefix, env, now))

\* esCleaner.py NUM_OF_DAYS
RunSweep(m, days) ==
    Commit("sweep", [mode |-> m, days |-> days],
           cleaner_main(Start, m.archive, m.rollover_mode, prefix, m.separator,
                        days, now))

\* the process of the run is gone; the next run may start
Exit ==
    /\ ~IsIdle
    /\ last' = Idle
    /\ stalled' = [f \in Families |->
                        IF stalled[f] = "caught_up" THEN "none" ELSE stalled[f]]
    /\ UNCHANGED <<prefix, archive, now, indices, aliases, templates, rolls,
                   failures, lookedback, race>>

\* time passes between runs
Tick ==
    /\ IsIdle
    /\ now < MaxTime
    /\ now' = now + 1
    /\ UNCHANGED <<prefix, archive, indices, aliases, templates, last, rolls, failures,
                  stalled, lookedback, race>>

\* the span writer (or another deployment) creates an index
Writer(name) ==
    /\ IsIdle
    /\ name \notin DOMAIN indices
    /\ Cardinality(Written) < MaxWriter
    /\ Cardinality(DOMAIN indices) < MaxIndices
    /\ indices' = [n \in DOMAIN indices \cup {name} |->
                        IF n = name THEN now ELSE indices[n]]
    /\ UNCHANGED <<prefix, archive, now, aliases, templates, last, rolls, failures,
                  stalled, lookedback, race>>

Init ==
    /\ prefix \in Prefixes
    /\ archive \in BOOLEAN
    /\ now = 0
    /\ indices = [n \in {} |-> 0]
    /\ aliases = {}
    /\ templates = {}
    /\ last = Idle
    /\ rolls = [f \in Families |-> -1]
    /\ failures = 0
    /\ stalled = [f \in Families |-> "none"]
    /\ lookedback = {}
    /\ race = NoRace

Next ==
    \/ \E env \in InitEnvs : RunInit(env)
    \/ \E env \in RolloverEnvs(archive) : RunRollover(env)
    \/ \E env \in LookbackEnvs : RunLookback(env)
    \/ \E m \in SweepModes : \E days \in DaysValues : RunSweep(m, days)
    \/ Exit
    \/ Tick
    \/ \E name \in WriterNames(prefix, now) : Writer(name)

Spec == Init /\ [][Next]_vars

(***************************************************************************)
(* Lookback on any store: the store starts with MaxSeq numbered indices of *)
(* the first family of the run (and for a primary run one of the service   *)
(* family), each of any age of AnyAges, the read and write aliases holding *)
(* any of them.                                                            *)
(***************************************************************************)
\* the day on which the arbitrary store is looked at
AnyNow == 10
\* ages in days: a day, UNIT_COUNT days, ten days
AnyAges == {1, 2, 10}

\* a family of n indices with the given ages and alias memberships
AnyFamily(pre, f, age, rd, wr) ==
    [ix |-> [n \in {NumName(pre, f, i) : i \in DOMAIN age} |->
                AnyNow - age[n.val]],
     al |-> {[alias |-> AliasRec(pre, f, "read"),
              index |-> NumName(pre, f, i), flag |-> "unset"] : i \in rd}
             \cup {[alias |-> AliasRec(pre, f, "write"),
                    index |-> NumName(pre, f, i), flag |-> "unset"] : i \in wr}]

AnyFamilies(pre, f, n) ==
    {AnyFamily(pre, f, age, rd, wr) :
        age \in [1..n -> AnyAges], rd \in SUBSET (1..n), wr \in SUBSET (1..n)}

\* no family: a store without indices
NoFamily == [ix |-> [n \in {} |-> 0], al |-> {}]

InitAny ==
    /\ prefix \in Prefixes
    /\ archive \in BOOLEAN
    /\ now = AnyNow
    /\ templates = {}
    /\ last = Idle
    /\ rolls = [f \in Families |-> -1]
    /\ failures = 0
    /\ stalled = [f \in Families |-> "none"]
    /\ lookedback = {}
    /\ race = NoRace
    /\ \E a \in AnyFamilies(PrefixDash(prefix),
                            IF archive THEN "archive" ELSE "span", MaxSeq) :
       \E b \in IF archive THEN {NoFamily}
                ELSE AnyFamilies(PrefixDash(prefix), "service", 1) :
            /\ indices = [n \in DOMAIN a.ix \cup DOMAIN b.ix |->
                            IF n \in DOMAIN a.ix THEN a.ix[n] ELSE b.ix[n]]
            /\ aliases = a.al \cup b.al

NextAny ==
    \/ \E env \in LookbackEnvs : RunLookback(env)
    \/ Exit

SpecAny == InitAny /\ [][NextAny]_vars

(***************************************************************************)
(* Runs in which a store call may fail: the call number fail of the run    *)
(* (counted from 0) raises the client's exception; -1 lets every call      *)
(* succeed.                                                                *)
(***************************************************************************)
\* the highest number of a store call that is made to fail
MaxFailPoint == 8
\* most runs with a failing store call
MaxFailures == 1
FailPoints == IF failures < MaxFailures THEN -1..MaxFailPoint ELSE {-1}

StartFailing(k) == [Start EXCEPT !.fail = k]

\* the run of esRollover.py with call k failing, for the calls the run makes
RolloverScriptFailing(op, env) ==
    LET all == rollover_main(Start, op, archive, prefix, env, now)
    IN  \E k \in FailPoints :
            /\ k < all.n
            /\ Commit(op, env,
                      rollover_main(StartFailing(k), op, archive, prefix, env,
                                    now))

InitFailing(env) ==
    /\ IsIdle
    /\ InitChecksPass(env) \/ now = 0
    /\ RolloverScriptFailing("init", env)

RolloverFailing(env) ==
    /\ IsIdle
    /\ RolloverBounded(env)
    /\ RolloverScriptFailing("rollover", env)

LookbackFailing(env) ==
    /\ IsIdle
    /\ RolloverScriptFailing("lookback", env)

SweepFailing(m, days) ==
    LET all == cleaner_main(Start, m.archive, m.rollover_mode, prefix,
                            m.separator, days, now)
    IN  \E k \in FailPoints :
            /\ IsIdle
            /\ k < all.n
            /\ Commit("sweep", [mode |-> m, days |-> days],
                      cleaner_main(StartFailing(k), m.archive, m.rollover_mode,
                                   prefix, m.separator, days, now))

\* one deployment, without a prefix, on an empty store
InitFail ==
    /\ Init
    /\ prefix = <<>>

NextFail ==
    \/ \E env \in InitEnvs : InitFailing(env)
    \/ \E env \in RolloverEnvs(archive) : RolloverFailing(env)
    \/ \E env \in LookbackEnvs : LookbackFailing(env)
    \/ \E m \in SweepModes : \E days \in DaysValues : SweepFailing(m, days)
    \/ Exit
    \/ Tick

SpecFail == InitFail /\ [][NextFail]_vars

(***************************************************************************)
(* The deployment whose INDEX_PREFIX holds the word 'write': the same runs *)
(* as in Spec, with the aliases write-jaeger-<family>-read and             *)
(* write-jaeger-<family>-write.                                            *)
(***************************************************************************)
InitWritePrefix ==
    /\ prefix = S_write
    /\ archive \in BOOLEAN
    /\ now = 0
    /\ indices = [n \in {} |-> 0]
    /\ aliases = {}
    /\ templates = {}
    /\ last = Idle
    /\ rolls = [f \in Families |-> -1]
    /\ failures = 0
    /\ stalled = [f \in Families |-> "none"]
    /\ lookedback = {}
    /\ race = NoRace

SpecWritePrefix == InitWritePrefix /\ [][Next]_vars

(***************************************************************************)
(* A sweep and a rollover at the same time.  esCleaner.py in ROLLOVER or   *)
(* ARCHIVE mode and esRollover.py rollover run side by side on the         *)
(* families of one deployment: each is a sequence of calls to the store,   *)
(* and the calls of the two interleave in any order.  A run keeps its      *)
(* index list between its calls; what a call reads or writes is the store  *)
(* at the moment of the call.  The store is set up by init and rollover    *)
(* runs that run alone.                                                    *)
(***************************************************************************)
\* what a step of a run sees: the store as it is now, and the run's list
At(ilo) == [World(indices, aliases, templates) EXCEPT !.ilo = ilo]

\* the store after a call that has changed it
Store(w) ==
    /\ indices' = w.ix
    /\ aliases' = w.al
    /\ templates' = w.tp

\* the write aliases the sweep excludes, in the order of its filters
SweepWriteAliases(pre, arch) ==
    IF arch THEN <<AliasRec(pre, "archive", "write")>>
    ELSE <<AliasRec(pre, "span", "write"), AliasRec(pre, "service", "write")>>

\* the two runs are started
StartRace(env, days) ==
    /\ IsIdle
    /\ ~race.on
    /\ RolloverBounded(env)
    /\ race' = [on |-> TRUE,
                sweep |-> [pc |-> "list", ilo |-> {}, arch |-> archive,
                           days |-> days,
                           todo |-> SweepWriteAliases(PrefixDash(prefix),
                                                      archive),
                           listed_write |-> {}, deleted |-> {}],
                roll |-> [pc |-> "check", ilo |-> {},
                          fams |-> IF archive THEN <<"archive">>
                                   ELSE <<"span", "service">>,
                          met |-> env.met]]
    /\ rolls' = [f \in Families |-> -1]
    /\ UNCHANGED <<prefix, archive, now, indices, aliases, templates, last,
                   failures, stalled, lookedback>>

\* esCleaner.py: curator.IndexList(client), and what the sweep does with
\* the list before its next call to the store
CleanerIndexList ==
    /\ race.on
    /\ race.sweep.pc = "list"
    /\ LET pre == PrefixDash(prefix)
           re == IF race.sweep.arch THEN ArchiveRolloverRegex(pre)
                 ELSE MainRolloverRegex(pre)
           w == empty_list(filter_by_regex(empty_list(IndexList(At({}))),
                                           [alts |-> re, anchored |-> FALSE]))
       IN  race' = [race EXCEPT
                      !.sweep.pc = IF w.st = "run" THEN "alias" ELSE "end",
                      !.sweep.ilo = w.ilo,
                      !.sweep.listed_write =
                          UNION {Members(aliases, race.sweep.todo[i]) :
                                     i \in DOMAIN race.sweep.todo}]
    /\ UNCHANGED <<prefix, archive, now, indices, aliases, templates, last,
                   rolls, failures, stalled, lookedback>>

\* esCleaner.py: ilo.filter_by_alias(aliases=[write alias], exclude=True),
\* and what follows it up to the next call to the store
CleanerFilterByAlias ==
    /\ race.on
    /\ race.sweep.pc = "alias"
    /\ LET rest == Tail(race.sweep.todo)
           w == empty_list(filter_by_alias(At(race.sweep.ilo),
                                           Head(race.sweep.todo), TRUE))
           w2 == IF rest = <<>>
                 THEN empty_list(filter_by_age_creation(w, "days",
                                                        race.sweep.days, now))
                 ELSE w
       IN  race' = [race EXCEPT
                      !.sweep.pc = IF w2.st # "run" THEN "end"
                                   ELSE IF rest = <<>> THEN "delete"
                                   ELSE "alias",
                      !.sweep.ilo = w2.ilo,
                      !.sweep.todo = rest]
    /\ UNCHANGED <<prefix, archive, now, indices, aliases, templates, last,
                   rolls, failures, stalled, lookedback>>

\* esCleaner.py: curator.DeleteIndices(ilo).do_action()
CleanerDeleteIndices ==
    /\ race.on
    /\ race.sweep.pc = "delete"
    /\ LET w == DeleteIndices(At(race.sweep.ilo))
       IN  /\ Store(w)
           /\ race' = [race EXCEPT !.sweep.pc = "end",
                                   !.sweep.deleted = race.sweep.ilo]
    /\ UNCHANGED <<prefix, archive, now, last, rolls, failures, stalled,
                   lookedback>>

\* esRollover.py rollover: curator.Rollover(name=write_alias, ...), which
\* asks the store whether the alias can be rolled over
RolloverConstruct ==
    /\ race.on
    /\ race.roll.pc = "check"
    /\ LET f == Head(race.roll.fams)
           w == StoreCall(At({}))
       IN  race' = [race EXCEPT
                      !.roll.pc =
                          IF rollable_alias(w.al, AliasRec(PrefixDash(prefix),
                                                           f, "write"))
                          THEN "roll" ELSE "end"]
    /\ UNCHANGED <<prefix, archive, now, indices, aliases, templates, last,
                   rolls, failures, stalled, lookedback>>

\* roll.do_action(): the store's rollover
RolloverDoAction ==
    /\ race.on
    /\ race.roll.pc = "roll"
    /\ LET f == Head(race.roll.fams)
           w == StoreRollover(StoreCall(At({})),
                              AliasRec(PrefixDash(prefix), f, "write"),
                              race.roll.met[f], now)
       IN  /\ Store(w)
           /\ race' = [race EXCEPT
                         !.roll.pc = IF w.st = "run" THEN "list" ELSE "end"]
    /\ UNCHANGED <<prefix, archive, now, last, rolls, failures, stalled,
                   lookedback>>

\* ilo = curator.IndexList(client)
RolloverIndexList ==
    /\ race.on
    /\ race.roll.pc = "list"
    /\ race' = [race EXCEPT !.roll.pc = "alias",
                            !.roll.ilo = IndexList(At({})).ilo]
    /\ UNCHANGED <<prefix, archive, now, indices, aliases, templates, last,
                   rolls, failures, stalled, lookedback>>

\* ilo.filter_by_alias(aliases=[write_alias])
RolloverFilterByAlias ==
    /\ race.on
    /\ race.roll.pc = "alias"
    /\ LET f == Head(race.roll.fams)
           w == filter_by_alias(At(race.roll.ilo),
                                AliasRec(PrefixDash(prefix), f, "write"),
                                FALSE)
       IN  race' = [race EXCEPT
                      !.roll.pc = IF w.st = "run" THEN "add" ELSE "end",
                      !.roll.ilo = w.ilo]
    /\ UNCHANGED <<prefix, archive, now, indices, aliases, templates, last,
                   rolls, failures, stalled, lookedback>>

\* alias.add(ilo); alias.do_action(), and main goes on to the next family
RolloverAliasAdd ==
    /\ race.on
    /\ race.roll.pc = "add"
    /\ LET f == Head(race.roll.fams)
           rest == Tail(race.roll.fams)
           w == AliasAdd(At(race.roll.ilo),
                         AliasRec(PrefixDash(prefix), f, "read"), FALSE)
       IN  /\ Store(w)
           /\ race' = [race EXCEPT
                         !.roll.pc = IF w.st # "run" \/ rest = <<>>
                                     THEN "end" ELSE "check",
                         !.roll.ilo = {},
                         !.roll.fams = rest]
    /\ UNCHANGED <<prefix, archive, now, last, rolls, failures, stalled,
                   lookedback>>

\* both processes are gone
EndRace ==
    /\ race.on
    /\ race.sweep.pc = "end"
    /\ race.roll.pc = "end"
    /\ race' = NoRace
    /\ UNCHANGED <<prefix, archive, now, indices, aliases, templates, last,
                   rolls, failures, stalled, lookedback>>

\* the environments of the init runs that set the store up
RaceInitEnvs ==
    {e \in InitEnvs : InitChecksPass(e) /\ e.esVersionEnv = <<>>}

InitRace ==
    /\ Init
    /\ prefix = <<>>

NextRace ==
    \/ \E env \in RaceInitEnvs : ~race.on /\ RunInit(env)
    \/ \E env \in RolloverEnvs(archive) : ~race.on /\ RunRollover(env)
    \/ Exit
    \/ ~race.on /\ Tick
    \/ \E env \in RolloverEnvs(archive) : \E days \in DaysValues :
            StartRace(env, days)
    \/ CleanerIndexList
    \/ CleanerFilterByAlias
    \/ CleanerDeleteIndices
    \/ RolloverConstruct
    \/ RolloverDoAction
    \/ RolloverIndexList
    \/ RolloverFilterByAlias
    \/ RolloverAliasAdd
    \/ EndRace

SpecRace == InitRace /\ [][NextRace]_vars

(***************************************************************************)
(* The properties.                                                         *)
(***************************************************************************)
Pre == PrefixDash(prefix)
ReadAlias(f) == AliasRec(Pre, f, "read")
WriteAlias(f) == AliasRec(Pre, f, "write")

\* the families a run of esRollover.py is configured for
RunFamilies == IF archive THEN {"archive"} ELSE {"span", "service"}

\* the families whose perform_action a lookback run r went into: the first,
\* and the service family once the span family's removal has been issued
LegsRun(r) ==
    IF archive THEN {"archive"}
    ELSE {"span"} \cup
         (IF \E i \in 1..Len(r.calls) : r.calls[i].alias = ReadAlias("span")
          THEN {"service"} ELSE {})

\* the members of the write aliases of this deployment's prefix
WriteBound == UNION {Members(aliases, WriteAlias(f)) : f \in Families}

IssuedCall(r, kind) == \E i \in 1..Len(r.calls) : r.calls[i].call = kind

IsDateSweep(r) ==
    r.op = "sweep" /\ ~r.arg.mode.archive /\ ~r.arg.mode.rollover_mode
IsNumberedSweep(r) ==
    r.op = "sweep" /\ (r.arg.mode.archive \/ r.arg.mode.rollover_mode)

\* C1: a retention sweep never deletes an index that is, at the time of the
\* sweep, a member of a write alias of the deployment's prefix.
C1_SweepSparesWriteIndices ==
    [][last'.op = "sweep" =>
            (DOMAIN indices \ DOMAIN indices') \cap WriteBound = {}]_vars

\* a numbered sweep has deleted the first index of a rolled-over family and
\* left the index the write alias points to
C1_Witness ==
    /\ IsNumberedSweep(last)
    /\ last.st = "done"
    /\ \E f \in Families :
        /\ last.arg.mode.archive <=> f = "archive"
        /\ Members(aliases, WriteAlias(f)) # {}
        /\ \A n \in Members(aliases, WriteAlias(f)) : n.val > 1
        /\ NumName(Pre, f, 1) \notin DOMAIN indices

\* C2, as amended: after N successful rollovers of a family that init
\* created, with no lookback or sweep changing it in between, the read alias
\* has exactly N+1 members and the write alias has exactly one write index;
\* the write alias has exactly one member without ES_USE_ILM and, every
\* rolled-over index staying in it unflagged, N+1 members with ES_USE_ILM.
C2_RolloverAliasSizes ==
    \A f \in Families :
        rolls[f] >= 0 =>
            /\ Cardinality(Members(aliases, ReadAlias(f))) = rolls[f] + 1
            /\ Cardinality(WriteIndexOf(aliases, WriteAlias(f))) = 1
            /\ Cardinality(Members(aliases, WriteAlias(f))) =
                    IF WriteFlagged(aliases, WriteAlias(f)) = {} THEN 1
                    ELSE rolls[f] + 1

\* two rollovers after an init under ES_USE_ILM
C2_Witness ==
    \E f \in Families :
        rolls[f] = 2 /\ WriteFlagged(aliases, WriteAlias(f)) # {}

\* C2, as stated: the read alias has exactly N+1 members and the write alias
\* exactly one, with or without ES_USE_ILM.
C2_AsStated ==
    \A f \in Families :
        rolls[f] >= 0 =>
            /\ Cardinality(Members(aliases, ReadAlias(f))) = rolls[f] + 1
            /\ Cardinality(Members(aliases, WriteAlias(f))) = 1

\* C3: an init that follows the init which created the families leaves the
\* store as it was: for each family exactly the index numbered 000001
\* exists, and the read and the write alias hold exactly that index.
C3_InitTwice ==
    [][(/\ last'.op = "init"
        /\ last'.st = "done"
        /\ \A f \in RunFamilies : rolls[f] = 0) =>
            /\ indices' = indices
            /\ aliases' = aliases
            /\ templates' = templates
            /\ \A f \in RunFamilies :
                /\ FamilyView(indices', aliases', Pre, f).idx
                        = {NumName(Pre, f, 1)}
                /\ Members(aliases', ReadAlias(f)) = {NumName(Pre, f, 1)}
                /\ Members(aliases', WriteAlias(f)) = {NumName(Pre, f, 1)}]_vars

\* a second init has ended: it found the aliases filled and added nothing
C3_Witness ==
    /\ last.op = "init"
    /\ last.st = "done"
    /\ ~IssuedCall(last, "alias_add")
    /\ \A f \in RunFamilies :
        /\ rolls[f] = 0
        /\ Members(aliases, ReadAlias(f)) = {NumName(Pre, f, 1)}

\* the read-alias members of family f a lookback with unit_count days is to
\* remove: not members of the write alias, created strictly before
\* now - unit_count days
LookbackSet(f, unit_count) ==
    {n \in Members(aliases, ReadAlias(f)) :
        /\ n \notin Members(aliases, WriteAlias(f))
        /\ indices[n] < now - unit_count}

C5_LookbackOnlyReadAlias ==
    [][last'.op = "lookback" =>
        /\ indices' = indices
        /\ {r \in aliases' : r.alias.rw # "read"}
                = {r \in aliases : r.alias.rw # "read"}]_vars

\* a lookback has removed an index from a read alias: the index is still in
\* the store and the write alias still has its members
C5_Witness ==
    /\ last.op = "lookback"
    /\ last.st = "done"
    /\ IssuedCall(last, "alias_remove")
    /\ \A f \in LegsRun(last) :
        /\ Members(aliases, WriteAlias(f)) # {}
        /\ FamilyView(indices, aliases, Pre, f).idx
                \ Members(aliases, ReadAlias(f)) # {}

\* the read alias of f has three members: one created ten days ago that is
\* the member of the write alias, two created a day ago
TenDayWriteMember(f) ==
    LET rd == Members(aliases, ReadAlias(f))
        wr == rd \cap Members(aliases, WriteAlias(f))
    IN  /\ Cardinality(rd) = 3
        /\ Cardinality(wr) = 1
        /\ \A n \in wr : now - indices[n] = 10
        /\ \A n \in rd \ wr : now - indices[n] = 1

\* C6, as amended: with UNIT=days, UNIT_COUNT=2 and a read alias of three
\* members, one created 10 days ago that is the write alias's member and two
\* created a day ago, lookback removes no index from the read alias, deletes
\* no index, and exits with status 0.
C6_LookbackKeepsWriteMember ==
    [][(last'.op = "lookback" /\ last'.arg.unit = "days"
            /\ last'.arg.unit_count = 2) =>
        \A f \in LegsRun(last') :
            TenDayWriteMember(f) =>
                /\ Members(aliases', ReadAlias(f)) = Members(aliases, ReadAlias(f))
                /\ indices' = indices
                /\ last'.st = "exit0"]_vars

\* such a lookback has ended
C6_Witness ==
    /\ last.op = "lookback"
    /\ last.arg.unit = "days"
    /\ last.arg.unit_count = 2
    /\ \E f \in LegsRun(last) : TenDayWriteMember(f)

\* C6, as stated: in that case lookback removes only the member created 10
\* days ago from the read alias, and deletes no index.
C6_AsStated ==
    [][(last'.op = "lookback" /\ last'.arg.unit = "days"
            /\ last'.arg.unit_count = 2) =>
        \A f \in LegsRun(last') :
            TenDayWriteMember(f) =>
                /\ Members(aliases', ReadAlias(f)) =
                        {n \in Members(aliases, ReadAlias(f)) :
                            now - indices[n] # 10}
                /\ indices' = indices]_vars

\* C7: the age filters select an index only if it is strictly older than the
\* threshold: lookback removes from a read alias only indices created before
\* now - count * unit, a numbered sweep deletes only indices created before
\* now - NUM_OF_DAYS days, a date-stamped sweep only indices whose name's
\* date is before it; an index exactly at the threshold stays.
C7_StrictlyOlder ==
    [][/\ last'.op = "lookback" =>
            \A f \in Families :
                \A n \in Members(aliases, ReadAlias(f))
                            \ Members(aliases', ReadAlias(f)) :
                    indices[n] < now - last'.arg.unit_count
       /\ IsNumberedSweep(last') =>
            \A n \in DOMAIN indices \ DOMAIN indices' :
                indices[n] < now - last'.arg.days
       /\ IsDateSweep(last') =>
            \A n \in DOMAIN indices \ DOMAIN indices' :
                n.kind = "date" /\ n.val < now - last'.arg.days]_vars

\* a date-stamped sweep has deleted an index and left the one of this
\* deployment whose date is exactly NUM_OF_DAYS days back
C7_Witness ==
    /\ IsDateSweep(last)
    /\ last.st = "done"
    /\ \E n \in DOMAIN indices :
        /\ n.kind = "date"
        /\ n.pre = Pre
        /\ n.sep = last.arg.mode.separator
        /\ n.val = now - last.arg.days

\* the indices a date-stamped sweep is to delete
DateSweepSet(separator, days) ==
    {n \in DOMAIN indices :
        /\ n.kind = "date"
        /\ n.pre = Pre
        /\ n.fam \in {"span", "service", "dependencies"}
        /\ n.sep = separator
        /\ n.val < now - days}

\* C8, as stated: a date-stamped sweep with separator s and NUM_OF_DAYS d
\* deletes exactly the indices named
\* <prefix>jaeger-(span|service|dependencies)-YYYYsMMsDD whose date is
\* strictly older than d days before now, and no other index.
C8_AsStated ==
    [][IsDateSweep(last') =>
        DOMAIN indices \ DOMAIN indices' =
            DateSweepSet(last'.arg.mode.separator, last'.arg.days)]_vars

\* the indices a numbered sweep is to delete
NumberedSweepSet(arch, days) ==
    {n \in DOMAIN indices :
        /\ n.kind = "num"
        /\ n.pre = Pre
        /\ n.fam \in (IF arch THEN {"archive"} ELSE {"span", "service"})
        /\ n \notin WriteBound
        /\ indices[n] < now - days}

\* C9, as stated: a sweep in ROLLOVER or ARCHIVE mode deletes exactly the
\* indices named <prefix>jaeger-(span|service)-NNNNNN (ARCHIVE:
\* <prefix>jaeger-span-archive-NNNNNN) that are not members of the write
\* aliases and were created strictly more than NUM_OF_DAYS days ago.
C9_AsStated ==
    [][IsNumberedSweep(last') =>
        DOMAIN indices \ DOMAIN indices' =
            NumberedSweepSet(last'.arg.mode.archive, last'.arg.days)]_vars

\* C10: a sweep whose candidates run out at any stage, so that it deletes
\* nothing, issues no delete call and exits with status 0.
C10_EmptySweepExitsZero ==
    [][last'.op = "sweep" =>
        /\ last'.st # "error"
        /\ DOMAIN indices' = DOMAIN indices =>
                last'.st = "exit0" /\ last'.calls = <<>>]_vars

\* a ROLLOVER sweep found the span family's first index, which the write
\* alias holds, and ended without a delete call
C10_Witness ==
    /\ IsNumberedSweep(last)
    /\ ~last.arg.mode.archive
    /\ last.st = "exit0"
    /\ NumName(Pre, "span", 1) \in Members(aliases, WriteAlias("span"))

\* C11, as stated: a lookback whose candidate set for a family it handles is
\* empty (the read alias has no member, every member is also a member of the
\* write alias, or no remaining member is old enough) issues no call on the
\* family's read alias and exits with status 0.
C11_AsStated ==
    [][last'.op = "lookback" =>
        \A f \in LegsRun(last') :
            LookbackSet(f, last'.arg.unit_count) = {} =>
                /\ last'.st = "exit0"
                /\ \A i \in 1..Len(last'.calls) :
                        last'.calls[i].alias # ReadAlias(f)]_vars

\* C12: an init with ES_USE_ILM whose ILM policy is not in the store ends
\* with a non-zero status and has issued no mutating call: templates, indices
\* and aliases are as they were.
C12_NoPolicyNoMutation ==
    [][(last'.op = "init" /\ last'.arg.use_ilm /\ ~last'.arg.policyExists) =>
            /\ last'.st = "error"
            /\ last'.calls = <<>>
            /\ templates' = templates
            /\ indices' = indices
            /\ aliases' = aliases]_vars

\* an init under ES_USE_ILM on a version 7 store, everything else in order,
\* has stopped at the missing policy
C12_Witness ==
    /\ last.op = "init"
    /\ last.arg.use_ilm
    /\ ~last.arg.policyExists
    /\ last.arg.genOk
    /\ IsSeven(get_version(last.arg.esVersionEnv, last.arg.storeVersion))
    /\ last.st = "error"

\* the entries of alias a: its members, each with its is_write_index flag
Entries(al, a) == {r \in al : r.alias = a}

\* C13: an init that finds the read alias, or the write alias, of a family
\* with at least one member leaves the membership of that alias as it is,
\* whatever the alias holds.
C13_InitKeepsFilledAlias ==
    [][last'.op = "init" =>
        \A f \in RunFamilies : \A a \in {ReadAlias(f), WriteAlias(f)} :
            Members(aliases, a) # {} =>
                Entries(aliases', a) = Entries(aliases, a)]_vars

\* an init has run to its end on a family whose read alias had lost the
\* first index to a lookback: the index is there, and not in the read alias
C13_Witness ==
    /\ last.op = "init"
    /\ last.st = "done"
    /\ \E f \in RunFamilies :
        /\ NumName(Pre, f, 1) \in DOMAIN indices
        /\ Members(aliases, ReadAlias(f)) # {}
        /\ NumName(Pre, f, 1) \notin Members(aliases, ReadAlias(f))

\* C14: a rollover run deletes no index and removes no member of a read
\* alias; when it completes, each family of the run has a write index and
\* that index is a member of the family's read alias.
C14_RolloverFillsReadAlias ==
    [][last'.op = "rollover" =>
        /\ DOMAIN indices \subseteq DOMAIN indices'
        /\ \A f \in Families :
                Members(aliases, ReadAlias(f))
                    \subseteq Members(aliases', ReadAlias(f))
        /\ last'.st = "done" =>
                \A f \in RunFamilies :
                    /\ WriteIndexOf(aliases', WriteAlias(f)) # {}
                    /\ WriteIndexOf(aliases', WriteAlias(f))
                            \subseteq Members(aliases', ReadAlias(f))]_vars

\* a rollover has completed in which the store rolled a family over: the
\* write index is past the first, and the read alias holds it and an older
\* index
C14_Witness ==
    /\ last.op = "rollover"
    /\ last.st = "done"
    /\ \E f \in RunFamilies :
        /\ last.arg.met[f]
        /\ \E n \in WriteIndexOf(aliases, WriteAlias(f)) :
            /\ n.val > 1
            /\ n \in Members(aliases, ReadAlias(f))
            /\ \E m \in Members(aliases, ReadAlias(f)) : m.val < n.val

\* the members of alias a that a step has newly flagged is_write_index=true
NewlyFlagged(a) == WriteFlagged(aliases', a) \ WriteFlagged(aliases, a)

\* C15: the write alias of a family never has more than one member flagged
\* is_write_index=true.  A member becomes flagged either in an init under
\* ES_USE_ILM that found the write alias empty, and then it is the family's
\* first index, or in a rollover run by the store's rollover, and then it
\* is the new index that follows the flagged one.
C15_OneWriteIndex ==
    [][\A f \in Families :
        /\ Cardinality(WriteFlagged(aliases', WriteAlias(f))) <= 1
        /\ \A n \in NewlyFlagged(WriteAlias(f)) :
            \/ /\ last'.op = "init"
               /\ last'.arg.use_ilm
               /\ n = NumName(Pre, f, 1)
               /\ Members(aliases, WriteAlias(f)) = {}
            \/ /\ last'.op = "rollover"
               /\ n \notin DOMAIN indices
               /\ \E m \in WriteFlagged(aliases, WriteAlias(f)) :
                        n = RolloverTarget(m)]_vars

\* an init under ES_USE_ILM has put the first index of a family into the
\* empty write alias, flagged
C15_Witness ==
    /\ last.op = "init"
    /\ last.arg.use_ilm
    /\ \E f \in RunFamilies :
        /\ \E i \in 1..Len(last.calls) :
                /\ last.calls[i].call = "alias_add"
                /\ last.calls[i].alias = WriteAlias(f)
        /\ WriteFlagged(aliases, WriteAlias(f)) = {NumName(Pre, f, 1)}

\* family f has a write index and its read alias holds it
ReadHoldsWriteIndex(f) ==
    /\ WriteIndexOf(aliases, WriteAlias(f)) # {}
    /\ WriteIndexOf(aliases, WriteAlias(f))
            \subseteq Members(aliases, ReadAlias(f))

\* C19: a rollover run in which the store does not roll a family over, the
\* read alias holding the write index already, leaves the family's indices
\* and the members of its write and read aliases as they were; when this is
\* so for every family of the run, the set of indices is unchanged and the
\* run succeeds.
C19_UnmetRolloverNoOp ==
    [][last'.op = "rollover" =>
        /\ \A f \in RunFamilies :
            (~last'.arg.met[f] /\ ReadHoldsWriteIndex(f)) =>
                /\ FamilyView(indices', aliases', Pre, f).idx
                        = FamilyView(indices, aliases, Pre, f).idx
                /\ Members(aliases', WriteAlias(f))
                        = Members(aliases, WriteAlias(f))
                /\ Members(aliases', ReadAlias(f))
                        = Members(aliases, ReadAlias(f))
        /\ (\A f \in RunFamilies :
                ~last'.arg.met[f] /\ ReadHoldsWriteIndex(f)) =>
                /\ indices' = indices
                /\ last'.st = "done"]_vars

\* a rollover with its conditions not met has completed on families of
\* which one was rolled over before: the add to the read alias was issued
\* and the read alias holds the write index
C19_Witness ==
    /\ last.op = "rollover"
    /\ last.st = "done"
    /\ IssuedCall(last, "alias_add")
    /\ \A f \in RunFamilies : ~last.arg.met[f] /\ ReadHoldsWriteIndex(f)
    /\ \E f \in RunFamilies : rolls[f] >= 1

\* C20, as stated: an init on families whose read and write aliases all
\* have members leaves the set of indices of the store as it was.
C20_AsStated ==
    [][(/\ last'.op = "init"
        /\ \A f \in RunFamilies :
            /\ Members(aliases, ReadAlias(f)) # {}
            /\ Members(aliases, WriteAlias(f)) # {}) =>
            DOMAIN indices' = DOMAIN indices]_vars

\* C16: when a rollover run has stopped between the store's rollover and the
\* add to the read alias, the family's new write index missing from the read
\* alias, the next rollover run that completes leaves the family with a write
\* index that is a member of the read alias.
C16_NextRolloverCatchesUp ==
    \A f \in Families :
        stalled[f] = "caught_up" =>
            /\ WriteIndexOf(aliases, WriteAlias(f)) # {}
            /\ WriteIndexOf(aliases, WriteAlias(f))
                    \subseteq Members(aliases, ReadAlias(f))

\* a rollover in which the store did not roll over again has completed
\* after the stalled one
C16_Witness ==
    /\ last.op = "rollover"
    /\ last.st = "done"
    /\ \E f \in RunFamilies :
        /\ stalled[f] = "caught_up"
        /\ ~last.arg.met[f]

\* a rollover in which the store rolled over again has completed after the
\* stalled one
C16_WitnessRolledAgain ==
    /\ last.op = "rollover"
    /\ last.st = "done"
    /\ \E f \in RunFamilies :
        /\ stalled[f] = "caught_up"
        /\ last.arg.met[f]
        /\ \E n \in WriteIndexOf(aliases, WriteAlias(f)) : n.val = 3

\* C17: a run in which a store call failed ends with a non-zero status, and
\* the calls it issued are those it had issued when the call failed: the
\* failed call is not issued again and no mutating call follows it.
C17_FailureEndsRun ==
    last.failed =>
        /\ last.st = "error"
        /\ Len(last.calls) = last.issued

\* a run has failed after its first mutating call and before its last
C17_Witness ==
    /\ last.failed
    /\ last.st = "error"
    /\ last.calls # <<>>
    /\ last.op \in {"init", "rollover"}

\* a sweep, and a lookback, have failed
C17_WitnessSweep == last.failed /\ last.op = "sweep"
C17_WitnessLookback == last.failed /\ last.op = "lookback"

IsPrefix(s, t) == Len(s) <= Len(t) /\ s = SubSeq(t, 1, Len(s))

\* the mutating calls of init for family f, in their order: the template,
\* the first index, the read alias if it is empty, the write alias if it is
\* empty
InitCalls(f) ==
    <<Call("put_template",
           AliasRec(Pre, IF f = "archive" THEN "span" ELSE f, "template"), {}),
      Call("create_index", NoAlias, {NumName(Pre, f, 1)})>>
      \o (IF Members(aliases, ReadAlias(f)) = {}
          THEN <<Call("alias_add", ReadAlias(f), {NumName(Pre, f, 1)})>>
          ELSE <<>>)
      \o (IF Members(aliases, WriteAlias(f)) = {}
          THEN <<Call("alias_add", WriteAlias(f), {NumName(Pre, f, 1)})>>
          ELSE <<>>)

\* the mutating calls of a whole init run
InitCallsOfRun ==
    IF archive THEN InitCalls("archive")
    ELSE InitCalls("span") \o InitCalls("service")

\* C18: the mutating calls of an init run are, family by family, a prefix of
\* template, index 000001, read alias (if empty), write alias (if empty), in
\* this order; the whole sequence when the run completes, none when the
\* template generator failed, and those issued before the failure when a
\* call failed.  The create call leaves index 000001 in the store.
C18_InitOrder ==
    [][last'.op = "init" =>
        /\ IsPrefix(last'.calls, InitCallsOfRun)
        /\ last'.st = "done" => last'.calls = InitCallsOfRun
        /\ ~last'.arg.genOk => last'.calls = <<>>
        /\ last'.failed =>
                last'.calls = SubSeq(InitCallsOfRun, 1, last'.issued)
        /\ \A f \in RunFamilies :
                (\E i \in 1..Len(last'.calls) :
                    /\ last'.calls[i].call = "create_index"
                    /\ i > (IF f = "service" THEN Len(InitCalls("span")) ELSE 0))
                    => NumName(Pre, f, 1) \in DOMAIN indices']_vars

\* an init has stopped at a failed call after it added the first index to
\* the read alias: the write alias is still empty
C18_Witness ==
    /\ last.op = "init"
    /\ last.failed
    /\ last.calls # <<>>
    /\ \E f \in RunFamilies :
        /\ last.calls[Len(last.calls)] = Call("alias_add", ReadAlias(f), {})
        /\ Members(aliases, ReadAlias(f)) = {NumName(Pre, f, 1)}
        /\ Members(aliases, WriteAlias(f)) = {}

\* an init has stopped at the failed template generator
C18_WitnessGenerator ==
    /\ last.op = "init"
    /\ ~last.arg.genOk
    /\ last.st = "error"
    /\ ~last.failed

IsArchiveSweep(r) == r.op = "sweep" /\ r.arg.mode.archive

\* what a run has deleted
Deleted == DOMAIN indices \ DOMAIN indices'

\* C21, as stated: an ARCHIVE sweep takes its candidates by alias
\* membership, not by name: it deletes the members of the archive read alias
\* that are not members of the archive write alias and are old enough.
C21_AsStated ==
    [][IsArchiveSweep(last') =>
        Deleted =
            {n \in Members(aliases, ReadAlias("archive")) :
                /\ n \notin Members(aliases, WriteAlias("archive"))
                /\ indices[n] < now - last'.arg.days}]_vars

\* C21, as amended: an ARCHIVE sweep takes its candidates by name: it
\* deletes the indices whose name holds a match of
\* <prefix>jaeger-span-archive-NNNNNN, that are not members of the archive
\* write alias and were created before now - NUM_OF_DAYS days, members of
\* the archive read alias or not.
C21_ArchiveSweepByName ==
    [][IsArchiveSweep(last') =>
        Deleted =
            {n \in DOMAIN indices :
                /\ Search(ArchiveRolloverRegex(Pre), Render(n))
                /\ n \notin Members(aliases, WriteAlias("archive"))
                /\ indices[n] < now - last'.arg.days}]_vars

\* an ARCHIVE sweep has deleted the first archive index, and the archive
\* read alias is left with the members it had
C21_Witness ==
    /\ IsArchiveSweep(last)
    /\ last.st = "done"
    /\ NumName(Pre, "archive", 1) \notin DOMAIN indices
    /\ Members(aliases, WriteAlias("archive")) # {}
    /\ Members(aliases, ReadAlias("archive"))
            = Members(aliases, WriteAlias("archive"))

\* the first family a run of esRollover.py handles
FirstFamily == IF archive THEN "archive" ELSE "span"

\* C22: a rollover run on a family whose write alias has no member ends with
\* an error and leaves the family's indices and the entries of its two
\* aliases as they were; when it is the first family of the run, the run has
\* issued no call and the whole store is as it was.
C22_RolloverUninitialized ==
    [][last'.op = "rollover" =>
        /\ \A f \in RunFamilies :
            Members(aliases, WriteAlias(f)) = {} =>
                /\ last'.st = "error"
                /\ FamilyView(indices', aliases', Pre, f)
                        = FamilyView(indices, aliases, Pre, f)
                /\ Members(aliases', WriteAlias(f)) = {}
        /\ Members(aliases, WriteAlias(FirstFamily)) = {} =>
                /\ last'.calls = <<>>
                /\ indices' = indices
                /\ aliases' = aliases]_vars

\* a rollover with its conditions met has ended in error on a store that
\* holds indices and no write alias of the run's families
C22_Witness ==
    /\ last.op = "rollover"
    /\ last.st = "error"
    /\ DOMAIN indices # {}
    /\ \A f \in RunFamilies :
        /\ last.arg.met[f]
        /\ Members(aliases, WriteAlias(f)) = {}
        /\ Members(aliases, ReadAlias(f)) = {}

\* C23: of the indices of the sweep's prefix, a primary sweep (date-stamped
\* or ROLLOVER mode) deletes no archive index and an ARCHIVE sweep deletes
\* nothing but archive indices.
C23_SweepKeepsToItsFamily ==
    [][last'.op = "sweep" =>
        \A n \in Deleted :
            n.pre = Pre =>
                (n.fam = "archive" <=> IsArchiveSweep(last'))]_vars

\* a primary sweep has deleted an index and left an archive index that is
\* old enough for it and in no write alias
C23_Witness ==
    /\ last.op = "sweep"
    /\ ~IsArchiveSweep(last)
    /\ last.st = "done"
    /\ \E n \in DOMAIN indices :
        /\ n.fam = "archive"
        /\ n.pre = Pre
        /\ n \notin WriteBound
        /\ indices[n] < now - last.arg.days

\* an ARCHIVE sweep has deleted an index and left a span index that is old
\* enough for it and in no write alias
C23_WitnessArchive ==
    /\ IsArchiveSweep(last)
    /\ last.st = "done"
    /\ \E n \in DOMAIN indices :
        /\ n.fam = "span"
        /\ n.pre = Pre
        /\ n \notin WriteBound
        /\ indices[n] < now - last.arg.days

\* C24, as stated: a sweep run with INDEX_PREFIX = P deletes only indices of
\* prefix P, never an index of another prefix.
C24_AsStated ==
    [][last'.op = "sweep" => \A n \in Deleted : n.pre = Pre]_vars

\* no member of the write alias of family f carries an is_write_index flag:
\* the family was not made under ES_USE_ILM
Unflagged(al, f) == \A r \in Entries(al, WriteAlias(f)) : r.flag = "unset"

\* C25: without ES_USE_ILM, from the init that completes for a family on,
\* after every run the family's write alias has exactly one member, that
\* member is an index of the store and a member of the family's read alias.
C25_OneWriteMember ==
    [][\A f \in Families :
        (/\ Unflagged(aliases, f)
         /\ \/ Members(aliases, WriteAlias(f)) # {}
            \/ /\ last'.op = "init"
               /\ last'.st = "done"
               /\ ~last'.arg.use_ilm
               /\ f \in RunFamilies) =>
            /\ Cardinality(Members(aliases', WriteAlias(f))) = 1
            /\ Unflagged(aliases', f)
            /\ Members(aliases', WriteAlias(f)) \subseteq DOMAIN indices'
            /\ Members(aliases', WriteAlias(f))
                    \subseteq Members(aliases', ReadAlias(f))]_vars

\* a numbered sweep has deleted the first index of a family made without
\* ES_USE_ILM, rolled over and looked back on: the read and the write alias
\* hold the one later index
C25_Witness ==
    /\ IsNumberedSweep(last)
    /\ last.st = "done"
    /\ \E f \in RunFamilies :
        /\ Unflagged(aliases, f)
        /\ NumName(Pre, f, 1) \notin DOMAIN indices
        /\ \E n \in DOMAIN indices :
            /\ n.val > 1
            /\ Members(aliases, WriteAlias(f)) = {n}
            /\ Members(aliases, ReadAlias(f)) = {n}

\* C26, as stated: a lookback run for the primary families removes from the
\* service read alias every member that is not a member of the service write
\* alias and is older than the threshold, whatever it found to remove in the
\* span family.
C26_AsStated ==
    [][(last'.op = "lookback" /\ ~archive) =>
        Members(aliases', ReadAlias("service")) =
            Members(aliases, ReadAlias("service"))
                \ LookbackSet("service", last'.arg.unit_count)]_vars

(***************************************************************************)
(* C27: an index that a lookback has removed from the read alias is not    *)
(* added back to it by a later rollover run, with or without ILM: the      *)
(* members a rollover run adds to a read alias are members of the family's *)
(* write alias, which a lookback never removes.  They are the write index  *)
(* alone unless an earlier run stopped between the store's rollover and    *)
(* the add to the read alias: under ILM the indices rolled over since are  *)
(* still in the write alias, flagged false, and the run adds them too.     *)
(***************************************************************************)
AddedToReadAlias(f) ==
    Members(aliases', ReadAlias(f)) \ Members(aliases, ReadAlias(f))

C27_WitnessCatchUp ==
    /\ last.op = "rollover"
    /\ last.st = "done"
    /\ \E f \in RunFamilies :
          \E r \in Entries(aliases, WriteAlias(f)) :
              /\ r.flag = "false"
              /\ r.index \in Members(aliases, ReadAlias(f))
              /\ stalled[f] = "caught_up"

(***************************************************************************)
(* C29: with ES_USE_ILM, init is rejected for the version only when the    *)
(* major version of Elasticsearch, detected from the store or given in     *)
(* ES_VERSION, is below 7; for 7 and above it goes on to the check of the  *)
(* ILM policy (and, the policy being there and the generator working,      *)
(* through to the end).                                                    *)
(***************************************************************************)
MajorVersion(env) ==
    IF env.esVersionEnv = <<>>
    THEN DigitVal(env.storeVersion[1])
    ELSE ParseDigits(env.esVersionEnv)

C29_AsStated ==
    [][(/\ last'.op = "init"
        /\ last'.arg.use_ilm
        /\ last'.arg.policyExists
        /\ last'.arg.genOk)
            => (last'.st = "error" <=> MajorVersion(last'.arg) < 7)]_vars

\* what the code does: the run goes on only for the int 7
C29_OnlyIntSeven ==
    [][(/\ last'.op = "init"
        /\ last'.arg.use_ilm
        /\ last'.arg.policyExists
        /\ last'.arg.genOk)
            => (last'.st = "error" <=>
                    ~IsSeven(get_version(last'.arg.esVersionEnv,
                                         last'.arg.storeVersion)))]_vars

(***************************************************************************)
(* C30: init flags is_write_index=true only the first index it adds to a   *)
(* family's write alias under ILM; no member of a read alias is ever       *)
(* flagged is_write_index, whatever INDEX_PREFIX is.                       *)
(***************************************************************************)
C30_AsStated ==
    \A r \in aliases : r.flag = "true" => r.alias.rw = "write"

(***************************************************************************)
(* C28: when a rollover runs at the same time as a sweep in ROLLOVER or    *)
(* ARCHIVE mode over the same families, then however their calls to the    *)
(* store interleave, no index that the sweep's delete call removes is a    *)
(* member of a write alias of these families at the moment of the call.    *)
(***************************************************************************)
C28_RaceSparesWriteMembers ==
    [][(race.on /\ race.sweep.pc = "delete" /\ race'.sweep.pc = "end") =>
         \A f \in RunFamilies :
            Deleted \cap Members(aliases, WriteAlias(f)) = {}]_vars

\* the sweep has deleted an index that was in a write alias when the sweep
\* listed the indices and that the rollover, still on its way, has rolled
\* over since
C28_Witness ==
    /\ race.on
    /\ race.sweep.pc = "end"
    /\ race.sweep.deleted \cap race.sweep.listed_write # {}
    /\ race.roll.pc \in {"list", "alias", "add"}

\* the same under ILM: the sweep deletes beside a rollover on its way that
\* has left two members in the write alias
C28_WitnessILM ==
    /\ race.on
    /\ race.sweep.pc = "end"
    /\ race.sweep.deleted # {}
    /\ race.roll.pc \in {"list", "alias", "add"}
    /\ \E f \in RunFamilies :
          \E r \in Entries(aliases, WriteAlias(f)) : r.flag = "false"

====
